---- MODULE Spec2Model ----
(***************************************************************************)
(* BleServicePlugin (windows/flutter/ble_service_plugin.cpp): the BLE      *)
(* central session manager.  The state is the plugin object's fields and   *)
(* the platform objects it drives (advertisement watcher, value-changed    *)
(* handlers installed on characteristics, event sinks); every command is   *)
(* a coroutine cut at its co_await points and at the boundaries of the     *)
(* devices_mutex_ critical sections.                                       *)
(***************************************************************************)
EXTENDS Integers, Sequences, FiniteSets, TLC

\* ------------------------------------------------------------------ bounds
MaxInFlight == 1   \* commands suspended at a co_await or between two steps
MaxPending == 1    \* Stopped events raised by the platform and not yet delivered
MaxHolders == 2    \* subscribe calls that got as far as creating their channel

\* --------------------------------------------------------------- universes
\* Device ids are the strings of the "deviceId" argument, as character
\* sequences; two spellings of one address and one other address.
DeviceIds == { <<"a", "1">>, <<"A", "1">>, <<"b", "2">> }
ServiceUuids == { "s1" }
CharUuids == { "c1", "c2" }
Channels == { "n1" }
\* The services a peripheral enumerates, the characteristics of each, and the
\* property bits of each characteristic.
DeviceServices == << "s1", "s2" >>
ServiceCharacteristics == << "c1", "c2" >>
Properties(chr) == IF chr = "c1" THEN { "Read", "Notify" } ELSE { "Write" }

DefaultTimeoutMs == 10000
Timeouts == { -1, 0, 100 }

\* ----------------------------------------------------------- pure helpers
HexDigit(ch) ==
    CASE ch = "0" -> 0 [] ch = "1" -> 1 [] ch = "2" -> 2 [] ch = "3" -> 3
      [] ch = "a" -> 10 [] ch = "A" -> 10 [] ch = "b" -> 11 [] ch = "B" -> 11

\* ss << std::hex << device_id_str; ss >> device_address;
\* (the ids of DeviceIds have two digits: no value leaves the uint64_t range)
RECURSIVE ParseHexFrom(_, _)
ParseHexFrom(str, acc) ==
    IF str = <<>> THEN acc
    ELSE ParseHexFrom(Tail(str), acc * 16 + HexDigit(Head(str)))

ParseHex(str) == ParseHexFrom(str, 0)

Addresses == { ParseHex(d) : d \in DeviceIds }

\* std::string key = device_id_str + "_" + service_uuid_str + "_" + char_uuid_str;
TokenKey(id, svc, chr) == id \o <<"_", svc, "_", chr>>

\* timeout_ms: default 10000, replaced by the "timeoutMs" argument when present
TimeoutOf(args) ==
    IF "timeoutMs" \in DOMAIN args THEN args.timeoutMs ELSE DefaultTimeoutMs

\* std::map operations on a function with a finite domain
MapPut(m, k, v) == [x \in DOMAIN m \cup {k} |-> IF x = k THEN v ELSE m[x]]
MapErase(m, k) == [x \in DOMAIN m \ {k} |-> m[x]]
EmptyMap == <<>>

\* ------------------------------------------------------------------ state
VARIABLES
    watcher_,                \* "null" (nullptr) or the watcher's Status()
    stopped_pending,         \* Stopped events raised and not yet delivered
    radio_fault,             \* TRUE: the platform throws from watcher calls
    connected_devices_,      \* std::map<uint64_t, BluetoothLEDevice>
    connection_state_sink_,  \* TRUE: an event sink is attached
    notification_tokens_,    \* std::map<std::string, winrt::event_token>
    value_changed,           \* handlers installed on the peripheral's characteristics
    holders,                 \* notification_sink of each channel created: sink attached?
    stream_handlers,         \* channel name -> holder its stream handler writes (0: none)
    inflight,                \* the coroutines between two of their steps
    result,                  \* the MethodResult completed by the last step
    events,                  \* the events the last step emitted, in order
    platform_calls,          \* the platform calls the last step issued, in order
    raised,                  \* the characteristic whose ValueChanged the last step handled
    issued,                  \* parity of the number of method calls received
    crashed,                 \* the process took an access violation
    devices_mutex_,          \* std::mutex: Free, or the coroutine that owns it
    accesses,                \* the accesses to the two maps the last step made, in order
    scan_results_sink_,      \* TRUE: an event sink is attached
    advertisement            \* the advertisement a Received handler has tested the sink for

vars == << watcher_, stopped_pending, radio_fault, connected_devices_,
           connection_state_sink_, notification_tokens_, value_changed, holders,
           stream_handlers, inflight, result, events, platform_calls, raised,
           issued, crashed, devices_mutex_, accesses, scan_results_sink_,
           advertisement >>

scanVars == << watcher_, stopped_pending >>
registryVars == << connected_devices_ >>
subscriptionVars == << notification_tokens_, value_changed, holders, stream_handlers >>

Slots == 1 .. MaxInFlight
Idle == [op |-> "idle"]
NoResult == [op |-> "none", arg |-> <<>>, value |-> FALSE]
Result(op, value) == [op |-> op, arg |-> <<>>, value |-> value]
\* the result of a command that found no device for its device_id_str
NotConnected(op, id, value) == [op |-> op, arg |-> id, value |-> value]
\* the result of startScan, with the timeout_ms it computed
ScanResult(timeout_ms, value) ==
    [op |-> "startScan", arg |-> <<>>, value |-> value, timeout_ms |-> timeout_ms]

ScanStateChanged(isScanning) == [type |-> "onScanStateChanged", isScanning |-> isScanning]
ConnectionState(id, isConnected) ==
    [type |-> "connection_state", deviceId |-> id,
     state |-> IF isConnected THEN "connected" ELSE "disconnected",
     isConnected |-> isConnected]

\* the BluetoothLEDevice the platform returns for an address
Device(addr) == [BluetoothAddress |-> addr]

FreeSlots == { s \in Slots : inflight[s] = Idle }
NewSlot == CHOOSE s \in FreeSlots : \A t \in FreeSlots : s <= t

\* no Received handler is between its test of the sink and its delivery
NoAdvertisement == [address |-> 0, name |-> ""]
\* a step of anything but the Received handler and the scan_results stream
ScanResultsUnchanged == UNCHANGED << scan_results_sink_, advertisement >>

\* devices_mutex_ with no owner
Free == 0
\* an access to a map made inside a std::lock_guard block on devices_mutex_
Locked(field, op) == [field |-> field, op |-> op, lock |-> TRUE]
\* an access to a map made with no lock held
Unguarded(field, op) == [field |-> field, op |-> op, lock |-> FALSE]
\* a step that touches neither map and does not take the lock
NoAccess == accesses' = <<>> /\ UNCHANGED devices_mutex_
\* the closing brace of the block of a lock_guard, before the next co_await
Release(owner) == Free
\* { std::lock_guard<std::mutex> lock(devices_mutex_); <op on connected_devices_> }
LockedSection(op) ==
    /\ devices_mutex_ = Free
    /\ accesses' = << Locked("connected_devices_", op) >>

\* the lookup's lock_guard declared in the coroutine's outermost block: the
\* lock is still owned at the co_await that follows
LookupSectionHeld(owner) ==
    /\ LockedSection("find")
    /\ devices_mutex_' = owner
\* { lock_guard; it = connected_devices_.find(device_address); ... } co_await
LookupSection(owner) ==
    /\ LockedSection("find")
    /\ devices_mutex_' = Release(owner)

\* a step that completes a method call with a value and leaves the coroutine
Complete(s, op, value) ==
    /\ result' = Result(op, value)
    /\ inflight' = [inflight EXCEPT ![s] = Idle]

\* a method call received by HandleMethodCall
Received == issued' = 1 - issued

Init ==
    /\ watcher_ = "null"
    /\ stopped_pending = 0
    /\ radio_fault = FALSE
    /\ connected_devices_ = EmptyMap
    /\ connection_state_sink_ = FALSE
    /\ notification_tokens_ = EmptyMap
    /\ value_changed = {}
    /\ holders = <<>>
    /\ stream_handlers = [n \in Channels |-> 0]
    /\ inflight = [s \in Slots |-> Idle]
    /\ result = NoResult
    /\ events = <<>>
    /\ platform_calls = <<>>
    /\ raised = <<>>
    /\ issued = 0
    /\ crashed = FALSE
    /\ devices_mutex_ = Free
    /\ accesses = <<>>
    /\ scan_results_sink_ = FALSE
    /\ advertisement = NoAdvertisement

\* --------------------------------------------------------------- platform
\* BluetoothLEAdvertisementWatcher::Stop(): a started watcher stops and the
\* platform raises Stopped; on any other watcher it changes nothing.
StopRaisesStopped(w) == w = "Started"
\* Stop() leaving the watcher as it was
WatcherUnchanged(w) == w
WatcherAfterStop(w) == IF w = "Started" THEN "Stopped" ELSE w

\* The platform starts or stops failing watcher calls.
RadioFaultChanges ==
    /\ ~crashed
    /\ raised' = <<>>
    /\ ScanResultsUnchanged
    /\ NoAccess
    /\ radio_fault' = ~radio_fault
    /\ result' = NoResult /\ events' = <<>> /\ platform_calls' = <<>>
    /\ UNCHANGED << scanVars, registryVars, connection_state_sink_,
                    subscriptionVars, inflight, issued, crashed >>

\* The platform aborts a running scan (radio turned off, ...).
WatcherAborted ==
    /\ ~crashed
    /\ raised' = <<>>
    /\ ScanResultsUnchanged
    /\ NoAccess
    /\ watcher_ = "Started"
    /\ stopped_pending < MaxPending
    /\ watcher_' = "Aborted"
    /\ stopped_pending' = stopped_pending + 1
    /\ result' = NoResult /\ events' = <<>> /\ platform_calls' = <<>>
    /\ UNCHANGED << radio_fault, registryVars, connection_state_sink_,
                    subscriptionVars, inflight, issued, crashed >>

\* The connection_state stream is listened to / cancelled.
ConnectionStateListen ==
    /\ ~crashed
    /\ raised' = <<>>
    /\ ScanResultsUnchanged
    /\ NoAccess
    /\ connection_state_sink_' = ~connection_state_sink_
    /\ result' = NoResult /\ events' = <<>> /\ platform_calls' = <<>>
    /\ UNCHANGED << scanVars, radio_fault, registryVars, subscriptionVars,
                    inflight, issued, crashed >>

\* ----------------------------------------------------------- scan control
\* The watcher's Stopped handler.
StoppedHandler ==
    /\ ~crashed
    /\ raised' = <<>>
    /\ ScanResultsUnchanged
    /\ NoAccess
    /\ stopped_pending > 0
    /\ stopped_pending' = stopped_pending - 1
    /\ events' = << ScanStateChanged(FALSE) >>
    /\ result' = NoResult /\ platform_calls' = <<>>
    /\ UNCHANGED << watcher_, radio_fault, registryVars, connection_state_sink_,
                    subscriptionVars, inflight, issued, crashed >>

\* ------------------------------------------------------------ scan results
\* the advertisements the watcher reports: an address and a LocalName
Advertisements == { [address |-> a, name |-> n] : a \in Addresses, n \in { "", "dev" } }

\* device_map of the Received handler (address and name; rssi and
\* serviceUuids are copied from the advertisement and left out)
DeviceInfo(ad) ==
    [deviceId |-> ad.address,
     name |-> IF ad.name = "" THEN "Unknown Device" ELSE ad.name]

\* the device taken to be in the list already
ExistsAlways(device_map) == TRUE
\* bool exists = false; (no statement assigns it again)
Exists(device_map) == FALSE

\* std::vector devices after "if (!exists) devices.push_back(device_map)"
DevicesToSend(device_map) == IF ~Exists(device_map) THEN << device_map >> ELSE <<>>

ScanResults(devices) == [type |-> "scan_results", devices |-> devices]

\* the thread the watcher raises Received on, as an owner of devices_mutex_
ReceivedThread == MaxInFlight + 1

\* The scan_results stream is listened to / cancelled.
ScanResultsListen ==
    /\ ~crashed
    /\ raised' = <<>>
    /\ NoAccess
    /\ scan_results_sink_' = ~scan_results_sink_
    /\ UNCHANGED advertisement
    /\ result' = NoResult /\ events' = <<>> /\ platform_calls' = <<>>
    /\ UNCHANGED << scanVars, radio_fault, registryVars, connection_state_sink_,
                    subscriptionVars, inflight, issued, crashed >>

\* The watcher's Received handler up to "if (scan_results_sink_)".
ReceivedTest(ad) ==
    /\ ~crashed
    /\ raised' = <<>>
    /\ NoAccess
    /\ watcher_ = "Started"
    /\ advertisement = NoAdvertisement
    /\ advertisement' = IF scan_results_sink_ THEN ad ELSE NoAdvertisement
    /\ result' = NoResult /\ events' = <<>> /\ platform_calls' = <<>>
    /\ UNCHANGED << scanVars, radio_fault, registryVars, connection_state_sink_,
                    subscriptionVars, inflight, issued, crashed, scan_results_sink_ >>

\* The Received handler inside its if block: the lock, the list, the event.
\* A sink reset since the test is used through a null or released pointer.
ReceivedDeliver ==
    /\ ~crashed
    /\ raised' = <<>>
    /\ advertisement # NoAdvertisement
    /\ devices_mutex_ = Free
    /\ devices_mutex_' = Release(ReceivedThread)
    /\ accesses' = <<>>
    /\ advertisement' = NoAdvertisement
    /\ LET devices == DevicesToSend(DeviceInfo(advertisement))
       IN  IF devices = <<>>
           THEN events' = <<>> /\ UNCHANGED crashed
           ELSE IF scan_results_sink_
           THEN events' = << ScanResults(devices) >> /\ UNCHANGED crashed
           ELSE \/ crashed' = TRUE /\ events' = <<>>
                \/ crashed' = FALSE /\ events' = <<>>
                \/ crashed' = FALSE /\ events' = << ScanResults(devices) >>
    /\ result' = NoResult /\ platform_calls' = <<>>
    /\ UNCHANGED << scanVars, radio_fault, registryVars, connection_state_sink_,
                    subscriptionVars, inflight, issued, scan_results_sink_ >>

ScanArgs == { EmptyMap } \cup { [timeoutMs |-> t] : t \in Timeouts }

InitializeBluetooth ==
    /\ ~crashed
    /\ raised' = <<>>
    /\ ScanResultsUnchanged
    /\ NoAccess
    /\ Received
    /\ IF radio_fault
       THEN /\ result' = Result("initialize", FALSE)
            /\ UNCHANGED watcher_
       ELSE /\ watcher_' = "Created"
            /\ result' = Result("initialize", TRUE)
    /\ platform_calls' = << "BluetoothLEAdvertisementWatcher" >>
    /\ events' = <<>>
    /\ UNCHANGED << stopped_pending, radio_fault, registryVars,
                    connection_state_sink_, subscriptionVars, inflight, crashed >>

\* startScan refusing to start while a scan is running
StartScanRefusesRunning(args) ==
    /\ ~crashed
    /\ raised' = <<>>
    /\ ScanResultsUnchanged
    /\ NoAccess
    /\ Received
    /\ IF watcher_ \in { "Created", "Stopped", "Aborted" } /\ ~radio_fault
       THEN /\ watcher_' = "Started"
            /\ platform_calls' = << "Start" >>
            /\ events' = << ScanStateChanged(TRUE) >>
            /\ result' = ScanResult(TimeoutOf(args), TRUE)
            /\ UNCHANGED stopped_pending
       ELSE /\ platform_calls' = <<>>
            /\ events' = <<>>
            /\ result' = ScanResult(TimeoutOf(args), FALSE)
            /\ UNCHANGED scanVars
    /\ UNCHANGED << radio_fault, registryVars, connection_state_sink_,
                    subscriptionVars, inflight, crashed >>

StartScan(args) ==
    /\ ~crashed
    /\ raised' = <<>>
    /\ ScanResultsUnchanged
    /\ NoAccess
    /\ Received
    /\ LET stopFirst == watcher_ # "null" /\ watcher_ = "Started"
           timeout_ms == TimeoutOf(args)
       IN  IF stopFirst /\ radio_fault
           THEN \* watcher_.Stop() throws
                /\ platform_calls' = << "Stop" >>
                /\ result' = ScanResult(timeout_ms, FALSE)
                /\ events' = <<>>
                /\ UNCHANGED << scanVars, crashed >>
           ELSE IF watcher_ = "null"
           THEN \* watcher_.Start() through a null reference
                /\ platform_calls' = <<>>
                /\ events' = <<>>
                /\ UNCHANGED scanVars
                /\ \/ crashed' = TRUE /\ result' = NoResult
                   \/ crashed' = FALSE
                      /\ result' = ScanResult(timeout_ms, FALSE)
           ELSE IF radio_fault
           THEN \* watcher_.Start() throws
                /\ platform_calls' = << "Start" >>
                /\ result' = ScanResult(timeout_ms, FALSE)
                /\ events' = <<>>
                /\ UNCHANGED << scanVars, crashed >>
           ELSE /\ stopFirst => stopped_pending < MaxPending
                /\ stopped_pending' =
                       IF stopFirst THEN stopped_pending + 1 ELSE stopped_pending
                /\ watcher_' = "Started"
                /\ platform_calls' =
                       IF stopFirst THEN << "Stop", "Start" >> ELSE << "Start" >>
                /\ events' = << ScanStateChanged(TRUE) >>
                /\ result' = ScanResult(timeout_ms, TRUE)
                /\ UNCHANGED crashed
    /\ UNCHANGED << radio_fault, registryVars, connection_state_sink_,
                    subscriptionVars, inflight >>

StopScan ==
    /\ ~crashed
    /\ raised' = <<>>
    /\ ScanResultsUnchanged
    /\ NoAccess
    /\ Received
    /\ IF watcher_ # "null" /\ watcher_ = "Started"
       THEN IF radio_fault
            THEN /\ platform_calls' = << "Stop" >>
                 /\ result' = Result("stopScan", FALSE)
                 /\ events' = <<>>
                 /\ UNCHANGED scanVars
            ELSE /\ stopped_pending < MaxPending
                 /\ watcher_' = WatcherAfterStop(watcher_)
                 /\ stopped_pending' = stopped_pending + 1
                 /\ platform_calls' = << "Stop" >>
                 /\ events' = << ScanStateChanged(FALSE) >>
                 /\ result' = Result("stopScan", TRUE)
       ELSE /\ platform_calls' = <<>>
            /\ events' = <<>>
            /\ result' = Result("stopScan", TRUE)
            /\ UNCHANGED scanVars
    /\ UNCHANGED << radio_fault, registryVars, connection_state_sink_,
                    subscriptionVars, inflight, crashed >>

\* -------------------------------------------------------- device registry
Has(args, field) == field \in DOMAIN args
ConnectArgs == { EmptyMap } \cup { [deviceId |-> d] : d \in DeviceIds }

\* the store left out
StoreDeviceSkipped(devices, addr) == devices
\* connected_devices_[device_address] = device;
StoreDevice(devices, addr) == MapPut(devices, addr, Device(addr))
\* clear() in the place of erase(device_address)
EraseDeviceAll(devices, addr) == EmptyMap
\* connected_devices_.erase(device_address);
EraseDevice(devices, addr) == MapErase(devices, addr)
\* clear() left out
ClearDevicesSkipped(devices) == devices
\* erase(begin()) in the place of clear()
ClearDevicesFirst(devices) ==
    IF DOMAIN devices = {} THEN devices
    ELSE MapErase(devices, CHOOSE a \in DOMAIN devices : \A b \in DOMAIN devices : a <= b)
\* connected_devices_.clear();
ClearDevices(devices) == EmptyMap

\* ConnectToDevice up to its co_await
ConnectStart(args) ==
    /\ ~crashed
    /\ raised' = <<>>
    /\ ScanResultsUnchanged
    /\ NoAccess
    /\ Received
    /\ events' = <<>>
    /\ IF ~Has(args, "deviceId")
       THEN /\ result' = Result("connectToDevice", FALSE)
            /\ platform_calls' = <<>>
            /\ UNCHANGED inflight
       ELSE /\ FreeSlots # {}
            /\ inflight' = [inflight EXCEPT ![NewSlot] =
                   [op |-> "connectToDevice", id |-> args.deviceId, pc |-> "device"]]
            /\ platform_calls' = << "FromBluetoothAddressAsync" >>
            /\ result' = NoResult
    /\ UNCHANGED << scanVars, radio_fault, registryVars, connection_state_sink_,
                    subscriptionVars, crashed >>

\* the entry stored before the device returned by the platform is tested
ConnectResumeStoresFirst(s, outcome) ==
    /\ ~crashed
    /\ raised' = <<>>
    /\ ScanResultsUnchanged
    /\ inflight[s] # Idle
    /\ inflight[s].op = "connectToDevice" /\ inflight[s].pc = "device"
    /\ events' = <<>> /\ platform_calls' = <<>>
    /\ connected_devices_' = StoreDevice(connected_devices_, ParseHex(inflight[s].id))
    /\ LockedSection("insert")
    /\ devices_mutex_' = Release(s)
    /\ IF outcome = "device"
       THEN /\ inflight' = [inflight EXCEPT ![s].pc = "emit"]
            /\ result' = NoResult
       ELSE Complete(s, "connectToDevice", FALSE)
    /\ UNCHANGED << scanVars, radio_fault, connection_state_sink_,
                    subscriptionVars, issued, crashed >>

\* FromBluetoothAddressAsync completes: a device, no device, or an error
ConnectResume(s, outcome) ==
    /\ ~crashed
    /\ raised' = <<>>
    /\ ScanResultsUnchanged
    /\ inflight[s] # Idle
    /\ inflight[s].op = "connectToDevice" /\ inflight[s].pc = "device"
    /\ events' = <<>> /\ platform_calls' = <<>>
    /\ IF outcome = "device"
       THEN /\ connected_devices_' =
                   StoreDevice(connected_devices_, ParseHex(inflight[s].id))
            /\ LockedSection("insert")
            /\ devices_mutex_' = Release(s)
            /\ inflight' = [inflight EXCEPT ![s].pc = "emit"]
            /\ result' = NoResult
       ELSE /\ Complete(s, "connectToDevice", FALSE)
            /\ UNCHANGED connected_devices_
            /\ NoAccess
    /\ UNCHANGED << scanVars, radio_fault, connection_state_sink_,
                    subscriptionVars, issued, crashed >>

\* ConnectToDevice after its critical section: the event and the result
ConnectEmit(s) ==
    /\ ~crashed
    /\ raised' = <<>>
    /\ ScanResultsUnchanged
    /\ NoAccess
    /\ inflight[s] # Idle
    /\ inflight[s].op = "connectToDevice" /\ inflight[s].pc = "emit"
    /\ events' = IF connection_state_sink_
                 THEN << ConnectionState(inflight[s].id, TRUE) >> ELSE <<>>
    /\ platform_calls' = <<>>
    /\ Complete(s, "connectToDevice", TRUE)
    /\ UNCHANGED << scanVars, radio_fault, registryVars, connection_state_sink_,
                    subscriptionVars, issued, crashed >>

\* disconnectDevice going on without testing for its deviceId field: the
\* address parsed from no string is 0
DisconnectStartUnchecked(args) ==
    /\ ~crashed
    /\ raised' = <<>>
    /\ ScanResultsUnchanged
    /\ Received
    /\ events' = <<>> /\ platform_calls' = <<>>
    /\ FreeSlots # {}
    /\ LET id == IF Has(args, "deviceId") THEN args.deviceId ELSE <<>>
       IN  /\ connected_devices_' = EraseDevice(connected_devices_, ParseHex(id))
           /\ inflight' = [inflight EXCEPT ![NewSlot] =
                  [op |-> "disconnectDevice", id |-> id, pc |-> "emit"]]
    /\ LockedSection("erase")
    /\ devices_mutex_' = Release(NewSlot)
    /\ result' = NoResult
    /\ UNCHANGED << scanVars, radio_fault, connection_state_sink_,
                    subscriptionVars, crashed >>

\* DisconnectDevice up to the end of its critical section
DisconnectStart(args) ==
    /\ ~crashed
    /\ raised' = <<>>
    /\ ScanResultsUnchanged
    /\ Received
    /\ events' = <<>> /\ platform_calls' = <<>>
    /\ IF ~Has(args, "deviceId")
       THEN /\ result' = Result("disconnectDevice", FALSE)
            /\ UNCHANGED << inflight, connected_devices_ >>
            /\ NoAccess
       ELSE /\ FreeSlots # {}
            /\ connected_devices_' =
                   EraseDevice(connected_devices_, ParseHex(args.deviceId))
            /\ LockedSection("erase")
            /\ devices_mutex_' = Release(NewSlot)
            /\ inflight' = [inflight EXCEPT ![NewSlot] =
                   [op |-> "disconnectDevice", id |-> args.deviceId, pc |-> "emit"]]
            /\ result' = NoResult
    /\ UNCHANGED << scanVars, radio_fault, connection_state_sink_,
                    subscriptionVars, crashed >>

\* DisconnectDevice after its critical section: the event and the result
DisconnectEmit(s) ==
    /\ ~crashed
    /\ raised' = <<>>
    /\ ScanResultsUnchanged
    /\ NoAccess
    /\ inflight[s] # Idle
    /\ inflight[s].op = "disconnectDevice" /\ inflight[s].pc = "emit"
    /\ events' = IF connection_state_sink_
                 THEN << ConnectionState(inflight[s].id, FALSE) >> ELSE <<>>
    /\ platform_calls' = <<>>
    /\ Complete(s, "disconnectDevice", TRUE)
    /\ UNCHANGED << scanVars, radio_fault, registryVars, connection_state_sink_,
                    subscriptionVars, issued, crashed >>

\* ------------------------------------------------ GATT session, shared part
GattOps == { "writeCharacteristic", "readCharacteristic",
             "subscribeToCharacteristic", "unsubscribeFromCharacteristic" }

\* the fields each command requires
Required(op) ==
    CASE op = "writeCharacteristic" ->
             { "deviceId", "serviceUuid", "characteristicUuid", "data" }
      [] op = "subscribeToCharacteristic" ->
             { "deviceId", "serviceUuid", "characteristicUuid", "notificationChannel" }
      [] op = "discoverServices" -> { "deviceId" }
      [] OTHER -> { "deviceId", "serviceUuid", "characteristicUuid" }

Payloads == { <<>>, <<1, 2, 3>> }

FullArgs(op) ==
    { [deviceId |-> d, serviceUuid |-> sv, characteristicUuid |-> c,
       data |-> <<1, 2, 3>>, notificationChannel |-> n, withResponse |-> w] :
         d \in DeviceIds, sv \in ServiceUuids, c \in CharUuids, n \in Channels,
         w \in IF op = "writeCharacteristic" THEN { "absent", "true", "false" }
               ELSE { "absent" } }

\* the payloads of a command: every field present, or one required field missing
Without(args, field) == [f \in DOMAIN args \ {field} |-> args[f]]
GattArgs(op) ==
    FullArgs(op) \cup
    { Without(CHOOSE a \in FullArgs(op) : TRUE, f) : f \in Required(op) }

\* a failed read answering with an empty byte sequence
FailureEmptyBytes(op) ==
    CASE op = "readCharacteristic" -> [present |-> TRUE, bytes |-> <<>>]
      [] op = "discoverServices" -> <<>>
      [] OTHER -> FALSE

\* the value a command returns when it fails
Failure(op) ==
    CASE op = "readCharacteristic" -> [present |-> FALSE, bytes |-> <<>>]
      [] op = "discoverServices" -> <<>>
      [] OTHER -> FALSE

\* { lock_guard; it = connected_devices_.find(device_address); ... }
NullDevice == [nullptr |-> TRUE]
\* the lookup answering with a device for every address
LookupAlways(devices, addr) == Device(addr)
Lookup(devices, addr) ==
    IF addr \in DOMAIN devices THEN devices[addr] ELSE NullDevice

\* write / read / subscribe / unsubscribe up to the first co_await
GattStart(op, args) ==
    /\ ~crashed
    /\ raised' = <<>>
    /\ ScanResultsUnchanged
    /\ Received
    /\ events' = <<>>
    /\ IF ~(Required(op) \subseteq DOMAIN args)
       THEN /\ result' = Result(op, Failure(op))
            /\ platform_calls' = <<>>
            /\ UNCHANGED inflight
            /\ NoAccess
       ELSE IF Lookup(connected_devices_, ParseHex(args.deviceId)) = NullDevice
       THEN /\ result' = NotConnected(op, args.deviceId, Failure(op))
            /\ platform_calls' = <<>>
            /\ UNCHANGED inflight
            /\ LockedSection("find")
            /\ UNCHANGED devices_mutex_
       ELSE /\ FreeSlots # {}
            /\ inflight' = [inflight EXCEPT ![NewSlot] =
                   [op |-> op, id |-> args.deviceId, svc |-> args.serviceUuid,
                    chr |-> args.characteristicUuid,
                    chan |-> args.notificationChannel,
                    with_response |-> args.withResponse,
                    pc |-> "services", holder |-> 0]]
            /\ platform_calls' = << "GetGattServicesForUuidAsync" >>
            /\ result' = NoResult
            /\ LookupSection(NewSlot)
    /\ UNCHANGED << scanVars, radio_fault, registryVars, connection_state_sink_,
                    subscriptionVars, crashed >>

Outcomes == { "Success", "Unreachable", "throw" }

\* GetGattServicesForUuidAsync completes
ServicesResume(s, outcome) ==
    /\ ~crashed
    /\ raised' = <<>>
    /\ ScanResultsUnchanged
    /\ NoAccess
    /\ inflight[s] # Idle
    /\ inflight[s].op \in GattOps /\ inflight[s].pc = "services"
    /\ events' = <<>>
    /\ IF outcome = "Success"
       THEN /\ inflight' = [inflight EXCEPT ![s].pc = "characteristics"]
            /\ platform_calls' = << "GetCharacteristicsForUuidAsync" >>
            /\ result' = NoResult
       ELSE /\ Complete(s, inflight[s].op, Failure(inflight[s].op))
            /\ platform_calls' = <<>>
    /\ UNCHANGED << scanVars, radio_fault, registryVars, connection_state_sink_,
                    subscriptionVars, issued, crashed >>

\* the write option left at its initial value
WriteOptionDefault(with_response) == "WriteWithResponse"
\* GattWriteOption write_option = ...
WriteOption(with_response) ==
    IF with_response # "absent" /\ with_response = "false"
    THEN "WriteWithoutResponse" ELSE "WriteWithResponse"

\* every characteristic taken to notify
HasNotifyAlways(chr) == TRUE

\* (CharacteristicProperties() & Notify) == Notify
HasNotify(chr) == "Notify" \in Properties(chr)

\* GetCharacteristicsForUuidAsync completes
CharacteristicsResume(s, outcome) ==
    /\ ~crashed
    /\ raised' = <<>>
    /\ ScanResultsUnchanged
    /\ NoAccess
    /\ inflight[s] # Idle
    /\ inflight[s].op \in GattOps /\ inflight[s].pc = "characteristics"
    /\ events' = <<>>
    /\ LET c == inflight[s] IN
       IF outcome # "Success"
       THEN /\ Complete(s, c.op, Failure(c.op))
            /\ platform_calls' = <<>>
            /\ UNCHANGED << holders, stream_handlers >>
       ELSE CASE c.op = "writeCharacteristic" ->
                 /\ inflight' = [inflight EXCEPT ![s].pc = "write"]
                 /\ platform_calls' = << "WriteValueAsync", WriteOption(c.with_response) >>
                 /\ result' = NoResult
                 /\ UNCHANGED << holders, stream_handlers >>
              [] c.op = "readCharacteristic" ->
                 /\ inflight' = [inflight EXCEPT ![s].pc = "read"]
                 /\ platform_calls' = << "ReadValueAsync" >>
                 /\ result' = NoResult
                 /\ UNCHANGED << holders, stream_handlers >>
              [] c.op = "subscribeToCharacteristic" ->
                 IF ~HasNotify(c.chr)
                 THEN /\ Complete(s, c.op, FALSE)
                      /\ platform_calls' = <<>>
                      /\ UNCHANGED << holders, stream_handlers >>
                 ELSE /\ Len(holders) < MaxHolders
                      /\ holders' = Append(holders, [channel |-> c.chan, sink |-> FALSE])
                      /\ stream_handlers' =
                             [stream_handlers EXCEPT ![c.chan] = Len(holders) + 1]
                      /\ inflight' = [inflight EXCEPT ![s].pc = "descriptor",
                                                      ![s].holder = Len(holders) + 1]
                      /\ platform_calls' = << "WriteClientCharacteristicConfigurationDescriptorAsync", "Notify" >>
                      /\ result' = NoResult
              [] c.op = "unsubscribeFromCharacteristic" ->
                 /\ inflight' = [inflight EXCEPT ![s].pc = "descriptor"]
                 /\ platform_calls' = << "WriteClientCharacteristicConfigurationDescriptorAsync", "None" >>
                 /\ result' = NoResult
                 /\ UNCHANGED << holders, stream_handlers >>
    /\ UNCHANGED << scanVars, radio_fault, registryVars, connection_state_sink_,
                    notification_tokens_, value_changed, issued, crashed >>

\* WriteValueAsync completes
WriteResume(s, outcome) ==
    /\ ~crashed
    /\ raised' = <<>>
    /\ ScanResultsUnchanged
    /\ NoAccess
    /\ inflight[s] # Idle
    /\ inflight[s].op = "writeCharacteristic" /\ inflight[s].pc = "write"
    /\ events' = <<>> /\ platform_calls' = <<>>
    /\ Complete(s, inflight[s].op, outcome = "Success")
    /\ UNCHANGED << scanVars, radio_fault, registryVars, connection_state_sink_,
                    subscriptionVars, issued, crashed >>

\* ReadValueAsync completes
ReadResume(s, outcome, bytes) ==
    /\ ~crashed
    /\ raised' = <<>>
    /\ ScanResultsUnchanged
    /\ NoAccess
    /\ inflight[s] # Idle
    /\ inflight[s].op = "readCharacteristic" /\ inflight[s].pc = "read"
    /\ events' = <<>> /\ platform_calls' = <<>>
    /\ Complete(s, inflight[s].op, IF outcome = "Success" THEN [present |-> TRUE, bytes |-> bytes]
                ELSE Failure(inflight[s].op))
    /\ UNCHANGED << scanVars, radio_fault, registryVars, connection_state_sink_,
                    subscriptionVars, issued, crashed >>

\* --------------------------------------------------- notification registry
\* auto token = characteristic.ValueChanged(handler);
\* (the handler captures notification_sink and device_id_str)
InstallHandler(handlers, token, id, svc, chr) ==
    handlers \cup { [token |-> token, id |-> id, svc |-> svc, chr |-> chr] }
\* the handlers installed on a characteristic of the peripheral
OnCharacteristic(handlers, addr, svc, chr) ==
    { h \in handlers : ParseHex(h.id) = addr /\ h.svc = svc /\ h.chr = chr }
\* characteristic.ValueChanged(token);
RemoveHandler(handlers, token, addr, svc, chr) ==
    handlers \ { h \in OnCharacteristic(handlers, addr, svc, chr) : h.token = token }
\* notification_tokens_[key] = token;
StoreToken(tokens, key, token) == MapPut(tokens, key, token)
\* clear() in the place of erase(key)
EraseTokenAll(tokens, key) == EmptyMap
\* notification_tokens_.erase(key);
EraseToken(tokens, key) == MapErase(tokens, key)

\* the handler installed and recorded whatever the descriptor write returned
SubscribeResumeNoRollback(s, outcome) ==
    /\ ~crashed
    /\ raised' = <<>>
    /\ ScanResultsUnchanged
    /\ inflight[s] # Idle
    /\ inflight[s].op = "subscribeToCharacteristic" /\ inflight[s].pc = "descriptor"
    /\ events' = <<>>
    /\ value_changed' = InstallHandler(value_changed, inflight[s].holder, inflight[s].id,
                                       inflight[s].svc, inflight[s].chr)
    /\ notification_tokens_' =
           StoreToken(notification_tokens_,
                      TokenKey(inflight[s].id, inflight[s].svc, inflight[s].chr),
                      inflight[s].holder)
    /\ platform_calls' = << "ValueChanged+" >>
    /\ accesses' = << Unguarded("notification_tokens_", "insert") >>
    /\ UNCHANGED devices_mutex_
    /\ Complete(s, inflight[s].op, outcome = "Success")
    /\ UNCHANGED << scanVars, radio_fault, registryVars, connection_state_sink_,
                    holders, stream_handlers, issued, crashed >>

\* SubscribeToCharacteristic after the descriptor write.  The token the
\* platform returns is named after the call's notification_sink holder.
SubscribeResume(s, outcome) ==
    /\ ~crashed
    /\ raised' = <<>>
    /\ ScanResultsUnchanged
    /\ inflight[s] # Idle
    /\ inflight[s].op = "subscribeToCharacteristic" /\ inflight[s].pc = "descriptor"
    /\ events' = <<>>
    /\ LET c == inflight[s]
           token == c.holder
       IN  IF outcome # "Success"
           THEN /\ Complete(s, c.op, FALSE)
                /\ platform_calls' = <<>>
                /\ UNCHANGED << notification_tokens_, value_changed >>
                /\ NoAccess
           ELSE /\ value_changed' =
                       InstallHandler(value_changed, token, c.id, c.svc, c.chr)
                /\ notification_tokens_' =
                       StoreToken(notification_tokens_, TokenKey(c.id, c.svc, c.chr), token)
                /\ platform_calls' = << "ValueChanged+" >>
                /\ accesses' = << Unguarded("notification_tokens_", "insert") >>
                /\ UNCHANGED devices_mutex_
                /\ Complete(s, c.op, TRUE)
    /\ UNCHANGED << scanVars, radio_fault, registryVars, connection_state_sink_,
                    holders, stream_handlers, issued, crashed >>

\* UnsubscribeFromCharacteristic after the descriptor write
UnsubscribeResume(s, outcome) ==
    /\ ~crashed
    /\ raised' = <<>>
    /\ ScanResultsUnchanged
    /\ inflight[s] # Idle
    /\ inflight[s].op = "unsubscribeFromCharacteristic" /\ inflight[s].pc = "descriptor"
    /\ events' = <<>>
    /\ LET c == inflight[s]
           key == TokenKey(c.id, c.svc, c.chr)
       IN  IF outcome = "throw"
           THEN /\ Complete(s, c.op, FALSE)
                /\ platform_calls' = <<>>
                /\ UNCHANGED << notification_tokens_, value_changed >>
                /\ NoAccess
           ELSE /\ IF key \in DOMAIN notification_tokens_
                   THEN /\ value_changed' =
                               RemoveHandler(value_changed, notification_tokens_[key],
                                             ParseHex(c.id), c.svc, c.chr)
                        /\ notification_tokens_' = EraseToken(notification_tokens_, key)
                        /\ platform_calls' = << "ValueChanged-" >>
                        /\ accesses' = << Unguarded("notification_tokens_", "count"),
                                          Unguarded("notification_tokens_", "read"),
                                          Unguarded("notification_tokens_", "erase") >>
                   ELSE /\ platform_calls' = <<>>
                        /\ UNCHANGED << notification_tokens_, value_changed >>
                        /\ accesses' = << Unguarded("notification_tokens_", "count") >>
                /\ Complete(s, c.op, outcome = "Success")
                /\ UNCHANGED devices_mutex_
    /\ UNCHANGED << scanVars, radio_fault, registryVars, connection_state_sink_,
                    holders, stream_handlers, issued, crashed >>

Notification(channel, token) ==
    [type |-> "notification", channel |-> channel, token |-> token]

\* the handlers of a characteristic run, in the order they were installed
RECURSIVE Deliveries(_, _, _, _)
Deliveries(token, addr, svc, chr) ==
    IF token > Len(holders) THEN <<>>
    ELSE (IF /\ \E h \in OnCharacteristic(value_changed, addr, svc, chr) : h.token = token
             /\ holders[token].sink
          THEN << Notification(holders[token].channel, token) >> ELSE <<>>)
         \o Deliveries(token + 1, addr, svc, chr)

\* The peripheral notifies a value of a characteristic.
ValueChangedRaised(addr, svc, chr) ==
    /\ crashed = FALSE
    /\ raised' = << addr, svc, chr >>
    /\ ScanResultsUnchanged
    /\ NoAccess
    /\ events' = Deliveries(1, addr, svc, chr)
    /\ result' = NoResult /\ platform_calls' = <<>>
    /\ UNCHANGED << scanVars, radio_fault, registryVars, connection_state_sink_,
                    subscriptionVars, inflight, issued, crashed >>

\* The stream of a notification channel is listened to / cancelled.
NotificationListen(n) ==
    /\ ~crashed
    /\ raised' = <<>>
    /\ ScanResultsUnchanged
    /\ NoAccess
    /\ stream_handlers[n] # 0
    /\ holders' = [holders EXCEPT ![stream_handlers[n]].sink = ~@]
    /\ result' = NoResult /\ events' = <<>> /\ platform_calls' = <<>>
    /\ UNCHANGED << scanVars, radio_fault, registryVars, connection_state_sink_,
                    notification_tokens_, value_changed, stream_handlers, inflight,
                    issued, crashed >>

\* ------------------------------------------------------- service discovery
\* the properties_list of a characteristic
PropertiesList(chr) ==
    (IF "Read" \in Properties(chr) THEN << "read" >> ELSE <<>>)
    \o (IF "Write" \in Properties(chr) THEN << "write" >> ELSE <<>>)
    \o (IF "Notify" \in Properties(chr) THEN << "notify" >> ELSE <<>>)

CharacteristicsList ==
    [i \in 1 .. Len(ServiceCharacteristics) |->
        [uuid |-> ServiceCharacteristics[i],
         properties |-> PropertiesList(ServiceCharacteristics[i])]]

DiscoverArgs == { EmptyMap } \cup { [deviceId |-> d] : d \in DeviceIds }

\* DiscoverServices up to its first co_await
DiscoverStart(args) ==
    /\ ~crashed
    /\ raised' = <<>>
    /\ ScanResultsUnchanged
    /\ Received
    /\ events' = <<>>
    /\ IF ~(Required("discoverServices") \subseteq DOMAIN args)
       THEN /\ result' = Result("discoverServices", <<>>)
            /\ platform_calls' = <<>>
            /\ UNCHANGED inflight
            /\ NoAccess
       ELSE IF Lookup(connected_devices_, ParseHex(args.deviceId)) = NullDevice
       THEN /\ result' = NotConnected("discoverServices", args.deviceId, <<>>)
            /\ platform_calls' = <<>>
            /\ UNCHANGED inflight
            /\ LockedSection("find")
            /\ UNCHANGED devices_mutex_
       ELSE /\ FreeSlots # {}
            /\ inflight' = [inflight EXCEPT ![NewSlot] =
                   [op |-> "discoverServices", id |-> args.deviceId,
                    pc |-> "services", i |-> 0, service_list |-> <<>>]]
            /\ platform_calls' = << "GetGattServicesAsync" >>
            /\ result' = NoResult
            /\ LookupSection(NewSlot)
    /\ UNCHANGED << scanVars, radio_fault, registryVars, connection_state_sink_,
                    subscriptionVars, crashed >>

\* GetGattServicesAsync completes
DiscoverServicesResume(s, outcome) ==
    /\ ~crashed
    /\ raised' = <<>>
    /\ ScanResultsUnchanged
    /\ NoAccess
    /\ inflight[s] # Idle
    /\ inflight[s].op = "discoverServices" /\ inflight[s].pc = "services"
    /\ events' = <<>>
    /\ IF outcome = "Success" /\ Len(DeviceServices) > 0
       THEN /\ inflight' = [inflight EXCEPT ![s].pc = "characteristics", ![s].i = 1]
            /\ platform_calls' = << "GetCharacteristicsAsync" >>
            /\ result' = NoResult
       ELSE /\ Complete(s, "discoverServices", <<>>)
            /\ platform_calls' = <<>>
    /\ UNCHANGED << scanVars, radio_fault, registryVars, connection_state_sink_,
                    subscriptionVars, issued, crashed >>

\* GetCharacteristicsAsync completes for the service the loop is at
DiscoverCharacteristicsResume(s, outcome) ==
    /\ ~crashed
    /\ raised' = <<>>
    /\ ScanResultsUnchanged
    /\ NoAccess
    /\ inflight[s] # Idle
    /\ inflight[s].op = "discoverServices" /\ inflight[s].pc = "characteristics"
    /\ events' = <<>>
    /\ LET c == inflight[s]
           service_map ==
               [uuid |-> DeviceServices[c.i],
                characteristics |->
                    IF outcome = "Success" THEN CharacteristicsList ELSE <<>>]
           service_list == Append(c.service_list, service_map)
       IN  IF outcome = "throw"
           THEN /\ Complete(s, "discoverServices", <<>>)
                /\ platform_calls' = <<>>
           ELSE IF c.i < Len(DeviceServices)
           THEN /\ inflight' = [inflight EXCEPT ![s].i = c.i + 1,
                                                ![s].service_list = service_list]
                /\ platform_calls' = << "GetCharacteristicsAsync" >>
                /\ result' = NoResult
           ELSE /\ Complete(s, "discoverServices", service_list)
                /\ platform_calls' = <<>>
    /\ UNCHANGED << scanVars, radio_fault, registryVars, connection_state_sink_,
                    subscriptionVars, issued, crashed >>

\* ------------------------------------------------------------- advertising
\* startAdvertising handing the call to the platform's publisher
StartAdvertisingPublishes ==
    /\ ~crashed
    /\ raised' = <<>>
    /\ ScanResultsUnchanged
    /\ NoAccess
    /\ Received
    /\ result' = Result("startAdvertising", ~radio_fault)
    /\ events' = <<>>
    /\ platform_calls' = << "BluetoothLEAdvertisementPublisher", "Start" >>
    /\ UNCHANGED << scanVars, radio_fault, registryVars, connection_state_sink_,
                    subscriptionVars, inflight, crashed >>

\* result->Success(flutter::EncodableValue(false));
StartAdvertising ==
    /\ ~crashed
    /\ raised' = <<>>
    /\ ScanResultsUnchanged
    /\ NoAccess
    /\ Received
    /\ result' = Result("startAdvertising", FALSE)
    /\ events' = <<>> /\ platform_calls' = <<>>
    /\ UNCHANGED << scanVars, radio_fault, registryVars, connection_state_sink_,
                    subscriptionVars, inflight, crashed >>

\* result->Success(flutter::EncodableValue(true));
StopAdvertising ==
    /\ ~crashed
    /\ raised' = <<>>
    /\ ScanResultsUnchanged
    /\ NoAccess
    /\ Received
    /\ result' = Result("stopAdvertising", TRUE)
    /\ events' = <<>> /\ platform_calls' = <<>>
    /\ UNCHANGED << scanVars, radio_fault, registryVars, connection_state_sink_,
                    subscriptionVars, inflight, crashed >>

\* ----------------------------------------------------------------- dispose
\* if (watcher_ != nullptr) { try { watcher_.Stop(); } catch (...) {} }
DisposeStops(w) == w # "null"
DisposeWatcher(w, fault) ==
    IF DisposeStops(w) /\ ~fault THEN WatcherAfterStop(w) ELSE w
DisposeRaises(w, fault) == DisposeStops(w) /\ ~fault /\ StopRaisesStopped(w)
\* what dispose leaves of the subscription bookkeeping
DisposeTokens(tokens) == tokens
DisposeHandlers(handlers) == handlers

Dispose ==
    /\ ~crashed
    /\ raised' = <<>>
    /\ ScanResultsUnchanged
    /\ Received
    /\ DisposeRaises(watcher_, radio_fault) => stopped_pending < MaxPending
    /\ watcher_' = DisposeWatcher(watcher_, radio_fault)
    /\ stopped_pending' = IF DisposeRaises(watcher_, radio_fault)
                          THEN stopped_pending + 1 ELSE stopped_pending
    /\ platform_calls' = IF DisposeStops(watcher_) THEN << "Stop" >> ELSE <<>>
    /\ connected_devices_' = ClearDevices(connected_devices_)
    /\ LockedSection("clear")
    /\ UNCHANGED devices_mutex_
    /\ notification_tokens_' = DisposeTokens(notification_tokens_)
    /\ value_changed' = DisposeHandlers(value_changed)
    /\ events' = <<>>
    /\ result' = Result("dispose", TRUE)
    /\ UNCHANGED << radio_fault, connection_state_sink_, holders, stream_handlers,
                    inflight, crashed >>

\* ------------------------------------------------------------------- next
ConnectOutcomes == { "device", "null", "throw" }

\* the platform and the listeners of the streams
ScanPlatform == RadioFaultChanges \/ WatcherAborted \/ StoppedHandler
ScanCommands ==
    \/ InitializeBluetooth
    \/ \E args \in ScanArgs : StartScan(args)
    \/ StopScan
RegistryCommands ==
    \/ \E args \in ConnectArgs : ConnectStart(args)
    \/ \E s \in Slots, outcome \in ConnectOutcomes : ConnectResume(s, outcome)
    \/ \E s \in Slots : ConnectEmit(s)
    \/ \E args \in ConnectArgs : DisconnectStart(args)
    \/ \E s \in Slots : DisconnectEmit(s)
GattResolution ==
    \/ \E s \in Slots, outcome \in Outcomes : ServicesResume(s, outcome)
    \/ \E s \in Slots, outcome \in Outcomes : CharacteristicsResume(s, outcome)
ReadWriteCommands ==
    \/ \E op \in { "writeCharacteristic", "readCharacteristic" } :
          \E args \in GattArgs(op) : GattStart(op, args)
    \/ \E s \in Slots, outcome \in Outcomes : WriteResume(s, outcome)
    \/ \E s \in Slots, outcome \in Outcomes, bytes \in Payloads :
          ReadResume(s, outcome, bytes)
DiscoverCommands ==
    \/ \E args \in DiscoverArgs : DiscoverStart(args)
    \/ \E s \in Slots, outcome \in Outcomes : DiscoverServicesResume(s, outcome)
    \/ \E s \in Slots, outcome \in Outcomes : DiscoverCharacteristicsResume(s, outcome)
NotificationCommands ==
    \/ \E op \in { "subscribeToCharacteristic", "unsubscribeFromCharacteristic" } :
          \E args \in GattArgs(op) : GattStart(op, args)
    \/ \E s \in Slots, outcome \in Outcomes : SubscribeResume(s, outcome)
    \/ \E s \in Slots, outcome \in Outcomes : UnsubscribeResume(s, outcome)
NotificationPlatform ==
    \/ \E addr \in Addresses, svc \in ServiceUuids, chr \in CharUuids :
          ValueChangedRaised(addr, svc, chr)
    \/ \E n \in Channels : NotificationListen(n)

Next ==
    \/ ScanPlatform
    \/ ScanCommands
    \/ ConnectionStateListen
    \/ RegistryCommands
    \/ GattResolution
    \/ ReadWriteCommands
    \/ DiscoverCommands
    \/ NotificationCommands
    \/ NotificationPlatform
    \/ StartAdvertising
    \/ StopAdvertising
    \/ ScanResultsListen
    \/ \E ad \in Advertisements : ReceivedTest(ad)
    \/ ReceivedDeliver
    \/ Dispose

Spec == Init /\ [][Next]_vars

\* The device registry alone: connect, disconnect and dispose.
RegistryNext == ConnectionStateListen \/ RegistryCommands \/ Dispose
RegistrySpec == Init /\ [][RegistryNext]_vars

\* The scan controller with the registry and dispose.
ScanNext == ScanPlatform \/ ScanCommands \/ RegistryCommands \/ Dispose
ScanSpec == Init /\ [][ScanNext]_vars

\* The scan controller alone.  What runs without a further method call is
\* the delivery of a raised Stopped event to the watcher's Stopped handler.
ScanOnlyNext == ScanPlatform \/ ScanCommands \/ Dispose
ScanOnlySpec == Init /\ [][ScanOnlyNext]_vars
FairScanSpec == Init /\ [][ScanOnlyNext]_vars /\ WF_vars(StoppedHandler)

\* The registry lookup of the five GATT commands.  The lookup reads the
\* address alone, so the commands are issued for one characteristic, the one
\* without Notify (which keeps the subscription registry out of the state),
\* and writes with the default write option.
LookupArgs(op) ==
    { a \in GattArgs(op) :
         /\ "characteristicUuid" \in DOMAIN a => ~HasNotify(a.characteristicUuid)
         /\ a.withResponse = "absent" }
LookupNext ==
    \/ RegistryCommands
    \/ GattResolution
    \/ DiscoverCommands
    \/ \E op \in GattOps : \E args \in LookupArgs(op) : GattStart(op, args)
    \/ \E s \in Slots, outcome \in Outcomes : WriteResume(s, outcome)
    \/ \E s \in Slots, outcome \in Outcomes, bytes \in Payloads :
          ReadResume(s, outcome, bytes)
    \/ \E s \in Slots, outcome \in Outcomes : UnsubscribeResume(s, outcome)
LookupSpec == Init /\ [][LookupNext]_vars

\* The notification registry with the device registry and dispose.
NotifyNext ==
    \/ RegistryCommands
    \/ GattResolution
    \/ NotificationCommands
    \/ NotificationPlatform
    \/ Dispose
NotifySpec == Init /\ [][NotifyNext]_vars

\* The notification registry driven by its commands alone: no listener, no
\* notification from the peripheral, no disconnect, no dispose.  One device is
\* connected and the commands name its notifying characteristic under the two
\* spellings of its address (two keys), or lack one required field.
SubscriptionIds == { d \in DeviceIds : ParseHex(d) = ParseHex(<<"a", "1">>) }
SubscriptionArgs(op) ==
    { a \in GattArgs(op) :
         Required(op) \subseteq DOMAIN a
            => a.deviceId \in SubscriptionIds /\ HasNotify(a.characteristicUuid) }
SubscriptionNext ==
    \/ ConnectStart([deviceId |-> <<"a", "1">>])
    \/ \E s \in Slots, outcome \in ConnectOutcomes : ConnectResume(s, outcome)
    \/ \E s \in Slots : ConnectEmit(s)
    \/ GattResolution
    \/ \E op \in { "subscribeToCharacteristic", "unsubscribeFromCharacteristic" } :
          \E args \in SubscriptionArgs(op) : GattStart(op, args)
    \/ \E s \in Slots, outcome \in Outcomes : SubscribeResume(s, outcome)
    \/ \E s \in Slots, outcome \in Outcomes : UnsubscribeResume(s, outcome)
SubscriptionSpec == Init /\ [][SubscriptionNext]_vars

\* writeCharacteristic on its own: one device is connected and written to.
WriteNext ==
    \/ ConnectStart([deviceId |-> <<"a", "1">>])
    \/ \E s \in Slots, outcome \in ConnectOutcomes : ConnectResume(s, outcome)
    \/ \E s \in Slots : ConnectEmit(s)
    \/ GattResolution
    \/ \E args \in GattArgs("writeCharacteristic") :
          GattStart("writeCharacteristic", args)
    \/ \E s \in Slots, outcome \in Outcomes : WriteResume(s, outcome)
WriteSpec == Init /\ [][WriteNext]_vars

\* readCharacteristic on its own: one device is connected and read from.
ReadNext ==
    \/ ConnectStart([deviceId |-> <<"a", "1">>])
    \/ \E s \in Slots, outcome \in ConnectOutcomes : ConnectResume(s, outcome)
    \/ \E s \in Slots : ConnectEmit(s)
    \/ GattResolution
    \/ \E args \in GattArgs("readCharacteristic") :
          GattStart("readCharacteristic", args)
    \/ \E s \in Slots, outcome \in Outcomes, bytes \in Payloads :
          ReadResume(s, outcome, bytes)
ReadSpec == Init /\ [][ReadNext]_vars

\* The advertising commands among the scan commands and the commands that
\* fill the two registries.
AdvertisingNext ==
    \/ StartAdvertising
    \/ StopAdvertising
    \/ InitializeBluetooth
    \/ StartScan(EmptyMap)
    \/ StopScan
    \/ StoppedHandler
    \/ ConnectStart([deviceId |-> <<"a", "1">>])
    \/ \E s \in Slots : ConnectResume(s, "device")
    \/ \E s \in Slots : ConnectEmit(s)
    \/ \E s \in Slots : ServicesResume(s, "Success")
    \/ \E s \in Slots : CharacteristicsResume(s, "Success")
    \/ \E args \in FullArgs("subscribeToCharacteristic") :
          /\ args.deviceId = <<"a", "1">> /\ HasNotify(args.characteristicUuid)
          /\ GattStart("subscribeToCharacteristic", args)
    \/ \E s \in Slots, outcome \in Outcomes : SubscribeResume(s, outcome)
AdvertisingSpec == Init /\ [][AdvertisingNext]_vars

\* The payloads of a command that lack one of its required fields.
MissingArgs(op) == { a \in GattArgs(op) : ~(Required(op) \subseteq DOMAIN a) }
\* The seven commands that take a payload, called with a required field
\* missing, while one device is connected and subscribed to and the
\* connection_state stream is listened to or not.
ArgumentNext ==
    \/ ConnectionStateListen
    \/ \E args \in { EmptyMap, [deviceId |-> <<"a", "1">>] } : ConnectStart(args)
    \/ \E s \in Slots : ConnectResume(s, "device")
    \/ \E s \in Slots : ConnectEmit(s)
    \/ DisconnectStart(EmptyMap)
    \/ DiscoverStart(EmptyMap)
    \/ \E op \in GattOps : \E args \in MissingArgs(op) : GattStart(op, args)
    \/ \E args \in FullArgs("subscribeToCharacteristic") :
          /\ args.deviceId = <<"a", "1">> /\ HasNotify(args.characteristicUuid)
          /\ GattStart("subscribeToCharacteristic", args)
    \/ \E s \in Slots : ServicesResume(s, "Success")
    \/ \E s \in Slots : CharacteristicsResume(s, "Success")
    \/ \E s \in Slots : SubscribeResume(s, "Success")
ArgumentSpec == Init /\ [][ArgumentNext]_vars

\* discoverServices with the commands of the device registry.
DiscoverNext == RegistryCommands \/ DiscoverCommands
DiscoverSpec == Init /\ [][DiscoverNext]_vars

\* subscribeToCharacteristic on the characteristics of one connected device,
\* the one that notifies and the one that does not, both resolved by the
\* platform.
CapabilityNext ==
    \/ ConnectStart([deviceId |-> <<"a", "1">>])
    \/ \E s \in Slots, outcome \in ConnectOutcomes : ConnectResume(s, outcome)
    \/ \E s \in Slots : ConnectEmit(s)
    \/ \E s \in Slots : ServicesResume(s, "Success")
    \/ \E s \in Slots : CharacteristicsResume(s, "Success")
    \/ \E args \in FullArgs("subscribeToCharacteristic") :
          /\ args.deviceId = <<"a", "1">>
          /\ GattStart("subscribeToCharacteristic", args)
    \/ \E s \in Slots, outcome \in Outcomes : SubscribeResume(s, outcome)
    \/ \E n \in Channels : NotificationListen(n)
CapabilitySpec == Init /\ [][CapabilityNext]_vars

\* The notification registry with its listeners and the peripheral's
\* notifications: the commands of SubscriptionSpec, the stream of a channel
\* listened to or cancelled, a value notified.
DeliveryNext == SubscriptionNext \/ NotificationPlatform
DeliverySpec == Init /\ [][DeliveryNext]_vars

\* The scan controller with the scan_results stream and the watcher's
\* Received handler.
ScanResultsPlatform ==
    \/ ScanResultsListen
    \/ \E ad \in Advertisements : ReceivedTest(ad)
    \/ ReceivedDeliver
ScanResultsNext == ScanOnlyNext \/ ScanResultsPlatform
ScanResultsSpec == Init /\ [][ScanResultsNext]_vars

\* Commands that take the registry lock (connect, disconnect, dispose) running
\* beside the watcher's Received handler, which takes the same lock.  Fairness:
\* the platform completes FromBluetoothAddressAsync, a resumed coroutine runs
\* to its end, and the thread that raised Received runs its handler on.
CommandNext == ScanResultsNext \/ RegistryCommands
FairCommandSpec ==
    /\ Init /\ [][CommandNext]_vars
    /\ WF_vars(\E s \in Slots, outcome \in ConnectOutcomes : ConnectResume(s, outcome))
    /\ WF_vars(\E s \in Slots : ConnectEmit(s))
    /\ WF_vars(\E s \in Slots : DisconnectEmit(s))
    /\ WF_vars(ReceivedDeliver)

\* ================================================================= claims
Connected(addr) == addr \in DOMAIN connected_devices_
ConnectedNext(addr) == addr \in DOMAIN connected_devices_'

\* the step of slot s that a coroutine of command op takes from pc
StepFrom(s, op, pc) ==
    /\ inflight[s] # Idle
    /\ inflight[s].op = op
    /\ inflight[s].pc = pc
    /\ inflight'[s] # inflight[s]
\* the step that starts a coroutine of command op in slot s
Starts(s, op) ==
    /\ inflight[s] = Idle
    /\ inflight'[s] # Idle
    /\ inflight'[s].op = op
\* the step handles a method call and answers it at once with op's result
AnswersAtOnce(op) == issued' # issued /\ result'.op = op

\* C1: connectToDevice(a) that succeeds stores an entry for a and completes
\* without touching it, disconnectDevice(a) erases the entry of a and
\* completes without touching it, and between the two nothing but a
\* disconnect of a or a dispose removes the entry of a and nothing but a
\* connect of a adds one: right after the command completes, with no other
\* command on a in between, a lookup finds the device (connect) or nothing
\* (disconnect).
C1_ConnectDisconnectLookup ==
    [][ /\ \A s \in Slots :
            /\ StepFrom(s, "connectToDevice", "device") /\ inflight'[s] # Idle
                  => Lookup(connected_devices_', ParseHex(inflight[s].id))
                        = Device(ParseHex(inflight[s].id))
            /\ StepFrom(s, "connectToDevice", "emit")
                  => /\ result' = Result("connectToDevice", TRUE)
                     /\ connected_devices_' = connected_devices_
            /\ Starts(s, "disconnectDevice")
                  => Lookup(connected_devices_', ParseHex(inflight'[s].id)) = NullDevice
            /\ StepFrom(s, "disconnectDevice", "emit")
                  => /\ result' = Result("disconnectDevice", TRUE)
                     /\ connected_devices_' = connected_devices_
        /\ \A a \in Addresses :
            /\ Connected(a) /\ ~ConnectedNext(a)
                  => \/ AnswersAtOnce("dispose")
                     \/ \E s \in Slots : /\ Starts(s, "disconnectDevice")
                                         /\ ParseHex(inflight'[s].id) = a
            /\ ~Connected(a) /\ ConnectedNext(a)
                  => \E s \in Slots : /\ StepFrom(s, "connectToDevice", "device")
                                      /\ ParseHex(inflight[s].id) = a
      ]_vars

\* a connect of "a1" completed with success and the registry holds its entry
C1_Witness ==
    /\ result = Result("connectToDevice", TRUE)
    /\ Lookup(connected_devices_, ParseHex(<<"a", "1">>)) = Device(161)
    /\ events = << ConnectionState(<<"a", "1">>, TRUE) >>

LookupOps == GattOps \cup { "discoverServices" }

\* C2: a GATT-level command (discoverServices, readCharacteristic,
\* writeCharacteristic, subscribeToCharacteristic,
\* unsubscribeFromCharacteristic) whose address has no entry in the device
\* registry at lookup time returns its failure value in the same step, starts
\* no coroutine and issues no platform call; only a command whose address is
\* in the registry goes on to service resolution.
C2_AbsentDeviceFailsFast ==
    [][ /\ \A s \in Slots, op \in LookupOps :
            Starts(s, op) => Connected(ParseHex(inflight'[s].id))
        /\ \A op \in LookupOps :
            AnswersAtOnce(op) /\ result'.arg # <<>> /\ ~Connected(ParseHex(result'.arg))
               => /\ result'.value = Failure(op)
                  /\ platform_calls' = <<>>
                  /\ inflight' = inflight
      ]_vars

\* a write for "b2" was answered at once with false and no platform call,
\* while "a1" is connected and "b2" is not
C2_Witness ==
    /\ result = NotConnected("writeCharacteristic", <<"b", "2">>, FALSE)
    /\ platform_calls = <<>>
    /\ Connected(161)
    /\ ~Connected(178)

\* the keys under which the code can record a subscription to a characteristic
KeysOf(addr, svc, chr) ==
    { TokenKey(id, svc, chr) : id \in { d \in DeviceIds : ParseHex(d) = addr } }
\* a record for the characteristic is held
Recorded(addr, svc, chr) == KeysOf(addr, svc, chr) \cap DOMAIN notification_tokens_ # {}
\* the step of slot s completes its coroutine's method call with success
Succeeds(s, op, pc) == StepFrom(s, op, pc) /\ result' = Result(op, TRUE)

\* C3: a subscribeToCharacteristic that succeeds for a (device, service,
\* characteristic) key that already has a record (an earlier subscribe
\* succeeded and no unsubscribe came in between) leaves exactly one
\* value-changed callback installed on that characteristic, the handle of the
\* earlier record having been released, so that one value-changed event is
\* delivered at most once.
C3_DoubleSubscribeOneCallback ==
    [][ \A s \in Slots :
          LET c == inflight[s]
              addr == ParseHex(c.id)
          IN  Succeeds(s, "subscribeToCharacteristic", "descriptor")
              /\ Recorded(addr, c.svc, c.chr)
                 => /\ Cardinality(OnCharacteristic(value_changed', addr, c.svc, c.chr)) = 1
                    /\ \A k \in KeysOf(addr, c.svc, c.chr) \cap DOMAIN notification_tokens_ :
                          \A h \in value_changed' : h.token # notification_tokens_[k]
      ]_vars

\* C4: when unsubscribeFromCharacteristic for a key completes with success,
\* a value-changed event of the key's characteristic is delivered on no
\* notification channel (no callback with an attached sink is left on it).
C4_NoDeliveryAfterUnsubscribe ==
    [][ \A s \in Slots :
          LET c == inflight[s]
              addr == ParseHex(c.id)
          IN  Succeeds(s, "unsubscribeFromCharacteristic", "descriptor")
                 => \A h \in OnCharacteristic(value_changed', addr, c.svc, c.chr) :
                       ~holders'[h.token].sink
      ]_vars

\* C5: in every reachable state the installed value-changed callbacks and the
\* subscription records are in one-to-one correspondence: every callback has
\* exactly one record holding its handle, and the handle of every record is
\* that of an installed callback.
C5_CallbacksMatchRecords ==
    /\ \A h \in value_changed :
          Cardinality({ k \in DOMAIN notification_tokens_ :
                           notification_tokens_[k] = h.token }) = 1
    /\ \A k \in DOMAIN notification_tokens_ :
          \E h \in value_changed : h.token = notification_tokens_[k]

\* C6: after a startScan that succeeded with a positive timeout_ms (the
\* default included), as long as no further method call is received, the
\* watcher eventually leaves the Started status and a scanning=false
\* scan-state event is emitted.
C6_ScanTimeoutStops ==
    \A b \in { 0, 1 } :
        (/\ result.op = "startScan"
         /\ result.value
         /\ result.timeout_ms > 0
         /\ issued = b)
        ~> (\/ issued # b
            \/ watcher_ # "Started" /\ events = << ScanStateChanged(FALSE) >>)

\* C7: when disconnectDevice(a) completes, no subscription record whose key
\* has the address a remains and no value-changed callback stays installed on
\* a characteristic of a.
C7_DisconnectDestroysSubscriptions ==
    [][ \A s \in Slots :
          StepFrom(s, "disconnectDevice", "emit")
             => \A svc \in ServiceUuids, chr \in CharUuids :
                   /\ KeysOf(ParseHex(inflight[s].id), svc, chr)
                         \cap DOMAIN notification_tokens_' = {}
                   /\ OnCharacteristic(value_changed', ParseHex(inflight[s].id),
                                       svc, chr) = {}
      ]_vars

\* C8: when dispose completes, no subscription record remains and no
\* value-changed callback stays installed.
C8_DisposeDestroysSubscriptions ==
    result.op = "dispose" => notification_tokens_ = EmptyMap /\ value_changed = {}

\* C9: when dispose completes, the device registry is empty, and a stop was
\* requested on the watcher if one existed and was scanning, whether the
\* platform's stop throws or not; a stop that does not throw leaves the
\* watcher not scanning.
C9_DisposeClearsRegistryAndStops ==
    [][ AnswersAtOnce("dispose")
           => /\ connected_devices_' = EmptyMap
              /\ watcher_ # "null" /\ watcher_ = "Started"
                    => platform_calls' = << "Stop" >>
              /\ watcher_ = "Started" /\ ~radio_fault
                    => watcher_' = "Stopped" /\ stopped_pending' = stopped_pending + 1
      ]_vars

\* dispose answered while a connect had stored its device and the scan was
\* running, with the platform's stop throwing: the registry is empty
C9_Witness ==
    /\ result = Result("dispose", TRUE)
    /\ platform_calls = << "Stop" >>
    /\ watcher_ = "Started"
    /\ radio_fault
    /\ \E s \in Slots : /\ inflight[s] # Idle
                        /\ inflight[s].op = "connectToDevice"
                        /\ inflight[s].pc = "emit"
    /\ connected_devices_ = EmptyMap

\* C10: every dispose reports true and takes no fault, in whatever state it
\* is called (no watcher, watcher scanning or not, stop throwing or not), and
\* a dispose that directly follows a dispose changes nothing of the plugin's
\* state.
C10_DisposeIdempotent ==
    [][ AnswersAtOnce("dispose")
           => /\ result' = Result("dispose", TRUE)
              /\ crashed' = crashed
              /\ result.op = "dispose"
                    => UNCHANGED << scanVars, radio_fault, registryVars,
                                    connection_state_sink_, subscriptionVars, inflight >>
      ]_vars

\* a dispose answered on a watcher that an earlier stop had stopped, the
\* Stopped event of that stop not yet delivered
C10_Witness ==
    /\ result = Result("dispose", TRUE)
    /\ platform_calls = << "Stop" >>
    /\ watcher_ = "Stopped"
    /\ stopped_pending = 1
    /\ connected_devices_ = EmptyMap

\* the key unsubscribeFromCharacteristic computes for the coroutine of slot s
UnsubscribeKey(s) == TokenKey(inflight[s].id, inflight[s].svc, inflight[s].chr)

\* C11: in unsubscribeFromCharacteristic for a key, once the descriptor write
\* that disables notifications has been issued, the step that follows its
\* completion detaches the callback stored for the key and removes the key's
\* record, whatever the outcome of the write (Success, another status, or a
\* thrown error), and answers with the write's success.
C11_UnsubscribeCleansWhateverTheWrite ==
    [][ \A s \in Slots, outcome \in Outcomes :
          UnsubscribeResume(s, outcome)
             => /\ UnsubscribeKey(s) \notin DOMAIN notification_tokens_'
                /\ UnsubscribeKey(s) \in DOMAIN notification_tokens_
                      => \A h \in value_changed' :
                            h.token # notification_tokens_[UnsubscribeKey(s)]
                /\ result' = Result("unsubscribeFromCharacteristic", outcome = "Success")
      ]_vars

\* C12: every completion of an unsubscribeFromCharacteristic that had all its
\* arguments and returns false because the service or the characteristic was
\* not resolved leaves no record for its key and no callback installed under
\* the key's handle.
C12_UnsubscribeCleanupUnconditional ==
    [][ \A s \in Slots :
          /\ \/ StepFrom(s, "unsubscribeFromCharacteristic", "services")
             \/ StepFrom(s, "unsubscribeFromCharacteristic", "characteristics")
          /\ inflight'[s] = Idle
          => /\ UnsubscribeKey(s) \notin DOMAIN notification_tokens_'
             /\ OnCharacteristic(value_changed', ParseHex(inflight[s].id),
                                 inflight[s].svc, inflight[s].chr) = {}
      ]_vars

\* C13: a subscribeToCharacteristic whose descriptor write (enable
\* notifications) does not succeed, by status or by a thrown error, returns
\* false with the installed callbacks and the subscription records as they
\* were before the call: no step of a subscribe other than the one that
\* answers true changes either.
C13_FailedSubscribeLeavesNothing ==
    [][ /\ \A s \in Slots, outcome \in Outcomes \ { "Success" } :
              SubscribeResume(s, outcome)
                 => /\ result' = Result("subscribeToCharacteristic", FALSE)
                    /\ value_changed' = value_changed
                    /\ notification_tokens_' = notification_tokens_
        /\ \A s \in Slots :
              /\ \/ Starts(s, "subscribeToCharacteristic")
                 \/ \E pc \in { "services", "characteristics", "descriptor" } :
                       StepFrom(s, "subscribeToCharacteristic", pc)
              /\ result' # Result("subscribeToCharacteristic", TRUE)
              => /\ value_changed' = value_changed
                 /\ notification_tokens_' = notification_tokens_
      ]_vars

\* a subscribe got as far as its channel and its descriptor write and
\* answered false: no callback is installed and no record held
C13_Witness ==
    /\ result = Result("subscribeToCharacteristic", FALSE)
    /\ Len(holders) = 1
    /\ stream_handlers["n1"] = 1
    /\ value_changed = {}
    /\ notification_tokens_ = EmptyMap

\* C14: the completion of an unsubscribeFromCharacteristic answers with the
\* success of the descriptor write and takes no fault; when its key has no
\* record it changes no record and no installed callback, and in every case
\* the records of the other keys and the callbacks they hold stay as they
\* were.
C14_UnsubscribeLeavesOtherKeys ==
    [][ \A s \in Slots, outcome \in Outcomes :
          UnsubscribeResume(s, outcome)
             => /\ result' = Result("unsubscribeFromCharacteristic", outcome = "Success")
                /\ crashed' = crashed
                /\ UnsubscribeKey(s) \notin DOMAIN notification_tokens_
                      => /\ notification_tokens_' = notification_tokens_
                         /\ value_changed' = value_changed
                /\ \A k \in DOMAIN notification_tokens_ \ { UnsubscribeKey(s) } :
                      /\ k \in DOMAIN notification_tokens_'
                      /\ notification_tokens_'[k] = notification_tokens_[k]
                      /\ \A h \in value_changed :
                            h.token = notification_tokens_[k] => h \in value_changed'
                /\ value_changed' \subseteq value_changed
      ]_vars

\* an unsubscribe answered true without detaching anything while the record
\* and the callback of another key are held
C14_Witness ==
    /\ result = Result("unsubscribeFromCharacteristic", TRUE)
    /\ platform_calls = <<>>
    /\ DOMAIN notification_tokens_ = { TokenKey(<<"a", "1">>, "s1", "c1") }
    /\ Cardinality(value_changed) = 1

\* C15: the scan-state events alternate scanning=true, scanning=false; in
\* particular no step emits two of them, and a step that emits one does not
\* directly follow a step that emitted the same one (one stop, or one start,
\* is reported once).
C15_ScanStateEventsAlternate ==
    [][ /\ Len(events') <= 1
        /\ \A isScanning \in BOOLEAN :
              events = << ScanStateChanged(isScanning) >>
                 => events' # << ScanStateChanged(isScanning) >>
      ]_vars

\* C16: a startScan received while the watcher is Started, the platform
\* calls not failing, stops the watcher and starts it again: it answers true,
\* leaves the watcher Started, emits scanning=true and takes no fault.
C16_StartScanRestartsRunningScan ==
    [][ AnswersAtOnce("startScan") /\ watcher_ = "Started" /\ ~radio_fault
           => /\ platform_calls' = << "Stop", "Start" >>
              /\ result'.value = TRUE
              /\ watcher_' = "Started"
              /\ events' = << ScanStateChanged(TRUE) >>
              /\ crashed' = crashed
      ]_vars

\* a startScan answered true after stopping and starting the watcher
C16_Witness ==
    /\ result = ScanResult(100, TRUE)
    /\ platform_calls = << "Stop", "Start" >>
    /\ watcher_ = "Started"
    /\ stopped_pending = 1
    /\ events = << ScanStateChanged(TRUE) >>

\* C17: a stopScan received while the watcher is not Started (no watcher, a
\* watcher never started, stopped or aborted) answers true, calls nothing,
\* emits nothing and changes nothing; received while the watcher is Started,
\* the platform not failing, it stops the watcher, emits scanning=false and
\* answers true.
C17_StopScanNoOpWhenIdle ==
    [][ AnswersAtOnce("stopScan")
           => IF watcher_ # "Started"
              THEN /\ result' = Result("stopScan", TRUE)
                   /\ platform_calls' = <<>>
                   /\ events' = <<>>
                   /\ UNCHANGED << scanVars, radio_fault, registryVars,
                                   connection_state_sink_, subscriptionVars,
                                   inflight, crashed >>
              ELSE ~radio_fault
                      => /\ result' = Result("stopScan", TRUE)
                         /\ platform_calls' = << "Stop" >>
                         /\ watcher_' = "Stopped"
                         /\ events' = << ScanStateChanged(FALSE) >>
      ]_vars

\* a stopScan answered true on a watcher already stopped, with no call and
\* no event
C17_Witness ==
    /\ result = Result("stopScan", TRUE)
    /\ platform_calls = <<>>
    /\ events = <<>>
    /\ watcher_ = "Stopped"

\* C18: when FromBluetoothAddressAsync returns no device or throws, the
\* connectToDevice answers false, emits no event and leaves the device
\* registry as it was (a prior entry for the address included); the start of
\* a connect changes no entry either.
C18_FailedConnectLeavesRegistry ==
    [][ /\ \A s \in Slots, outcome \in ConnectOutcomes \ { "device" } :
              ConnectResume(s, outcome)
                 => /\ result' = Result("connectToDevice", FALSE)
                    /\ events' = <<>>
                    /\ connected_devices_' = connected_devices_
        /\ \A s \in Slots :
              Starts(s, "connectToDevice")
                 => events' = <<>> /\ connected_devices_' = connected_devices_
      ]_vars

\* a connect answered false with the connection_state stream listened to:
\* no event, and the entries stored before are still there
C18_Witness ==
    /\ result = Result("connectToDevice", FALSE)
    /\ connection_state_sink_
    /\ events = <<>>
    /\ DOMAIN connected_devices_ = { 161, 178 }

\* C19: disconnectDevice(a), whether a has an entry or not, leaves the
\* registry without an entry for a and with every other entry as it was
\* (with the registry unchanged when a had no entry, as on a repeated
\* disconnect), then answers true and emits {deviceId, state=disconnected,
\* isConnected=false} on the connection_state stream when it is listened to.
C19_DisconnectIdempotent ==
    [][ \A s \in Slots :
          /\ Starts(s, "disconnectDevice")
                => LET a == ParseHex(inflight'[s].id)
                   IN  /\ ~ConnectedNext(a)
                       /\ \A b \in Addresses \ { a } :
                             /\ Connected(b) <=> ConnectedNext(b)
                             /\ Connected(b) => connected_devices_'[b] = connected_devices_[b]
                       /\ ~Connected(a) => connected_devices_' = connected_devices_
          /\ StepFrom(s, "disconnectDevice", "emit")
                => /\ result' = Result("disconnectDevice", TRUE)
                   /\ connected_devices_' = connected_devices_
                   /\ events' = IF connection_state_sink_
                                THEN << [type |-> "connection_state",
                                         deviceId |-> inflight[s].id,
                                         state |-> "disconnected",
                                         isConnected |-> FALSE] >>
                                ELSE <<>>
      ]_vars

\* a disconnect of "b2" completed: its event was emitted, "b2" has no entry
\* and "a1" kept its own
C19_Witness ==
    /\ result = Result("disconnectDevice", TRUE)
    /\ events = << ConnectionState(<<"b", "2">>, FALSE) >>
    /\ Connected(161)
    /\ ~Connected(178)

\* C20: writeCharacteristic issues its one WriteValueAsync with
\* WriteWithoutResponse exactly when withResponse is present and false, and
\* with WriteWithResponse when it is true or omitted; the completion of that
\* write answers with its success and issues no further call.
C20_WriteModeFromWithResponse ==
    [][ \A s \in Slots, outcome \in Outcomes :
          /\ CharacteristicsResume(s, outcome)
             /\ inflight[s].op = "writeCharacteristic" /\ inflight'[s] # Idle
                => platform_calls' =
                      << "WriteValueAsync",
                         IF inflight[s].with_response = "false"
                         THEN "WriteWithoutResponse" ELSE "WriteWithResponse" >>
          /\ WriteResume(s, outcome)
                => /\ result' = Result("writeCharacteristic", outcome = "Success")
                   /\ platform_calls' = <<>>
                   /\ inflight'[s] = Idle
      ]_vars

\* a write with withResponse=false reached its WriteValueAsync, issued
\* without response
C20_Witness ==
    /\ platform_calls = << "WriteValueAsync", "WriteWithoutResponse" >>
    /\ \E s \in Slots : /\ inflight[s] # Idle
                        /\ inflight[s].pc = "write"
                        /\ inflight[s].with_response = "false"

\* C21: every readCharacteristic that fails (a required field missing, the
\* device absent from the registry, the service or the characteristic not
\* resolved, a platform status other than Success, a thrown error) completes
\* with the absent value, which is not the value of a successful read of a
\* zero-length payload (a present, empty byte sequence); a successful read
\* completes with the bytes read, present.
C21_ReadFailureIsAbsent ==
    [][ /\ \A s \in Slots, outcome \in Outcomes, bytes \in Payloads :
             ReadResume(s, outcome, bytes)
                => result'.value = IF outcome = "Success"
                                   THEN [present |-> TRUE, bytes |-> bytes]
                                   ELSE [present |-> FALSE, bytes |-> <<>>]
        /\ ( /\ result'.op = "readCharacteristic"
             /\ ~(\E s \in Slots, bytes \in Payloads : ReadResume(s, "Success", bytes)) )
              => /\ result'.value.present = FALSE
                 /\ result'.value # [present |-> TRUE, bytes |-> <<>>]
      ]_vars

\* a read of a connected device failed after its lookup and returned the
\* absent value
C21_Witness ==
    /\ result = Result("readCharacteristic", [present |-> FALSE, bytes |-> <<>>])
    /\ Connected(161)
    /\ platform_calls = <<>>
    /\ issued = 0

\* C22: startAdvertising and stopAdvertising are answered in every state the
\* plugin runs in; startAdvertising returns false and stopAdvertising returns
\* true, and the step issues no platform call, emits no event and leaves the
\* scan state, the device registry, the subscription registry and the
\* commands in flight as they were.
C22_AdvertisingFixedResults ==
    /\ [](~crashed => ENABLED StartAdvertising /\ ENABLED StopAdvertising)
    /\ [][ \A op \in { "startAdvertising", "stopAdvertising" } :
             AnswersAtOnce(op)
                => /\ result' = Result(op, op = "stopAdvertising")
                   /\ platform_calls' = <<>>
                   /\ events' = <<>>
                   /\ UNCHANGED << scanVars, registryVars, subscriptionVars, inflight >>
         ]_vars

\* startAdvertising answered false while a scan runs, a device is connected
\* and a subscription is recorded
C22_Witness ==
    /\ result = Result("startAdvertising", FALSE)
    /\ platform_calls = <<>>
    /\ watcher_ = "Started"
    /\ Connected(161)
    /\ DOMAIN notification_tokens_ # {}

\* the program counters at which a coroutine waits for a platform completion
AwaitPcs == { "device", "services", "characteristics", "write", "read", "descriptor" }
\* the coroutine of slot s is suspended on an awaited platform call
Suspended(s) == inflight[s] # Idle /\ inflight[s].pc \in AwaitPcs

\* C23: in every reachable state, a command that is suspended on an awaited
\* platform call (connect, service or characteristic enumeration, read,
\* write, descriptor write) does not own devices_mutex_, and the lock has no
\* owner at all, so the registry lookup or mutation of another command is
\* not blocked.
C23_NoLockAcrossAwait ==
    \A s \in Slots : Suspended(s) => devices_mutex_ # s /\ devices_mutex_ = Free

\* a command took the lock for its lookup, released it and is suspended on
\* the service enumeration
C23_Witness ==
    /\ accesses = << Locked("connected_devices_", "find") >>
    /\ devices_mutex_ = Free
    /\ \E s \in Slots : Suspended(s) /\ inflight[s].pc = "services"

\* C24: every read, insert and erase on the subscription registry
\* (notification_tokens_) is made while holding devices_mutex_, the lock that
\* guards the device registry: no step accesses notification_tokens_ outside
\* a lock_guard block.
C24_SubscriptionAccessesLocked ==
    \A i \in DOMAIN accesses :
        accesses[i].field = "notification_tokens_" => accesses[i].lock

\* C25: an initialize that succeeds while a watcher already exists tears the
\* old watcher down before replacing it: when the old watcher is scanning,
\* the step stops it, so that the new watcher is the only one left to
\* deliver scan-result and scan-state events.
C25_InitializeTearsDownOldWatcher ==
    [][ ( /\ AnswersAtOnce("initialize")
          /\ watcher_ = "Started"
          /\ result'.value = TRUE )
           => \E i \in DOMAIN platform_calls' : platform_calls'[i] = "Stop"
      ]_vars

\* what a step that only refuses a command leaves alone
RefusedAtOnce ==
    /\ platform_calls' = <<>>
    /\ events' = <<>>
    /\ UNCHANGED << connected_devices_, notification_tokens_, value_changed, inflight >>

\* C26: connectToDevice, disconnectDevice, discoverServices,
\* readCharacteristic, writeCharacteristic, subscribeToCharacteristic and
\* unsubscribeFromCharacteristic, called with a required field missing from
\* the payload, answer in the same step with their failure value (false, the
\* empty list, the absent value), issue no platform call, emit no event,
\* start no coroutine and leave the device registry and the subscription
\* registry unchanged.
C26_MissingFieldFailsAtOnce ==
    [][ /\ ConnectStart(EmptyMap)
           => result' = Result("connectToDevice", FALSE) /\ RefusedAtOnce
        /\ DisconnectStart(EmptyMap)
           => result' = Result("disconnectDevice", FALSE) /\ RefusedAtOnce
        /\ DiscoverStart(EmptyMap)
           => result' = Result("discoverServices", <<>>) /\ RefusedAtOnce
        /\ \A op \in GattOps : \A args \in MissingArgs(op) :
              GattStart(op, args)
                 => /\ result' = Result(op, IF op = "readCharacteristic"
                                            THEN [present |-> FALSE, bytes |-> <<>>]
                                            ELSE FALSE)
                    /\ RefusedAtOnce
        /\ \A op \in GattOps \cup { "connectToDevice", "disconnectDevice", "discoverServices" } :
              (AnswersAtOnce(op) /\ result'.arg = <<>>) => RefusedAtOnce
      ]_vars

\* a write lacking a required field was refused at once while a device is
\* connected, a subscription is recorded and the stream is listened to
C26_Witness ==
    /\ result = Result("writeCharacteristic", FALSE)
    /\ platform_calls = <<>>
    /\ Connected(161)
    /\ DOMAIN notification_tokens_ # {}
    /\ connection_state_sink_

\* C27: with a connection-state sink attached, the event stream follows the
\* device registry: a step that removes the entry of an address from the
\* registry belongs to a command that reports isConnected=false for that
\* address before it completes, so that in a quiescent state the last event
\* of an address says connected exactly when the registry holds its entry.
C27_ConnectionEventsFollowRegistry ==
    [][ \A a \in Addresses :
          (connection_state_sink_ /\ Connected(a) /\ ~ConnectedNext(a))
             => \E s \in Slots : /\ inflight'[s] # Idle
                                 /\ inflight'[s].op = "disconnectDevice"
                                 /\ inflight'[s].pc = "emit"
                                 /\ ParseHex(inflight'[s].id) = a
      ]_vars

\* C28: a discoverServices whose service enumeration succeeded returns one
\* entry per enumerated service, in enumeration order, whatever the outcome
\* of the characteristic enumerations: a service whose characteristic
\* enumeration failed is returned with an empty characteristic list, one
\* whose enumeration succeeded with its characteristics, and no entry of a
\* sibling service is removed.
C28_DiscoverKeepsSiblingServices ==
    [][ \A s \in Slots :
          (StepFrom(s, "discoverServices", "characteristics") /\ inflight'[s] = Idle)
             => /\ Len(result'.value) = Len(DeviceServices)
                /\ \A i \in 1 .. Len(DeviceServices) :
                      result'.value[i].uuid = DeviceServices[i]
                /\ \A i \in 1 .. Len(inflight[s].service_list) :
                      result'.value[i] = inflight[s].service_list[i]
      ]_vars

\* C29: a subscribeToCharacteristic that resolved a characteristic whose
\* properties lack Notify completes in the step that resolved it with false:
\* the step issues no descriptor write (no platform call at all), creates no
\* event channel and no stream handler, installs no value-changed callback
\* and stores no subscription record.
C29_NoNotifyRefusedAtOnce ==
    [][ \A s \in Slots :
          ( /\ StepFrom(s, "subscribeToCharacteristic", "characteristics")
            /\ "Notify" \notin Properties(inflight[s].chr) )
             => /\ result' = Result("subscribeToCharacteristic", FALSE)
                /\ inflight'[s] = Idle
                /\ platform_calls' = <<>>
                /\ UNCHANGED << holders, stream_handlers, value_changed,
                                notification_tokens_ >>
      ]_vars

\* a subscribe to the connected device was refused with nothing created,
\* both enumerations having succeeded
C29_Witness ==
    /\ result = Result("subscribeToCharacteristic", FALSE)
    /\ Connected(161)
    /\ holders = <<>>
    /\ value_changed = {}
    /\ DOMAIN notification_tokens_ = {}
    /\ platform_calls = <<>>

\* a listener is attached to the stream of channel n
Listening(n) == stream_handlers[n] # 0 /\ holders[stream_handlers[n]].sink

\* C30: while a subscription is recorded under key k and a listener is
\* attached to the channel given in the subscribe call of k, a value-changed
\* event on k's characteristic is delivered exactly once, to that channel;
\* with no listener attached to the channel nothing is delivered and the
\* process does not fault.
C30_NotificationDeliveredOnce ==
    [][ \A addr \in Addresses, svc \in ServiceUuids, chr \in CharUuids :
          ValueChangedRaised(addr, svc, chr)
             => \A k \in KeysOf(addr, svc, chr) \cap DOMAIN notification_tokens_ :
                   LET n == holders[notification_tokens_[k]].channel
                   IN  /\ ~crashed'
                       /\ IF Listening(n)
                          THEN /\ Len(events') = 1
                               /\ events'[1].channel = n
                          ELSE events' = <<>>
      ]_vars

\* C31: a delivery never uses a sink that has been released: whenever the
\* watcher's Received handler goes on to scan_results_sink_->Success, the
\* sink it tested is still attached, whatever the stream handler did in
\* between, and the process does not fault.
C31_DeliveryUsesLiveSink ==
    [][ ReceivedDeliver => (scan_results_sink_ /\ ~crashed') ]_vars

C33_CommandsComplete ==
    \A s \in Slots : (inflight[s] # Idle) ~> (inflight[s] = Idle)

====
